---- MODULE Spec2Model ----
(***************************************************************************)
(* Tooltip layout of the RolloverModifier (src/unnamed/part_000).          *)
(*                                                                         *)
(* Numbers.  The code computes with IEEE doubles.  The model is a          *)
(* fixed-point one: every length (coord, size, shift, spacing, viewport    *)
(* extent) is an integer count of 1/Unit pixel, pixelRatio is a plain      *)
(* integer.  Every division of the code goes through Div, which is defined *)
(* only when the division is exact, so on the inputs enumerated here the   *)
(* model computes exactly what the doubles compute (all values are dyadic  *)
(* rationals of small magnitude).                                          *)
(*                                                                         *)
(* Objects.  A tooltip object is identified by its position in the array   *)
(* it was created in; a cluster is a sequence of such positions, so that   *)
(* writing a field of a cluster member writes the caller's object.         *)
(***************************************************************************)
EXTENDS Integers, Sequences, FiniteSets, TLC

VARIABLES
    tooltipArray,             \* TTooltipProps[] handed to / returned by calcTooltipPositions
    allowTooltipOverlapping,  \* argument / RolloverModifier.allowTooltipOverlappingProperty
    spacing,                  \* argument spacing (device pixels)
    seriesViewRect,           \* argument / parentSurface.seriesViewRect: [width, height]
    pixelRatio,               \* argument / DpiHelper.PIXEL_RATIO
    isVerticalChart,          \* argument / RolloverModifier.isVerticalChart()
    given,                    \* the array as it was before the first call
    calls,                    \* number of calcTooltipPositions calls made on tooltipArray
    pc,                       \* which function was applied last
    cluster,                  \* the cluster (positions of tooltipArray) given to spreadTooltips
    shiftMap,                 \* Map<number, number> returned by spreadTooltips
    pointsArgs,               \* arguments of the last getUpdatedPoints call
    updatedPoints,            \* { start, end } returned by getUpdatedPoints
    isAttached,               \* ChartModifierBase.isAttached (parentSurface is set)
    mousePosition,            \* RolloverModifier.mousePosition
    mousePoint,               \* ChartModifierBase.mousePoint: a point of HitTestData, 0: undefined
    showRolloverLineProperty, \* RolloverModifier.showRolloverLineProperty
    showTooltipProperty,      \* RolloverModifier.showTooltipProperty
    includedSeriesMap,        \* RolloverModifier.includedSeriesMap
    rolloverLineIsHidden,     \* rolloverLineAnnotation.isHidden
    seriesProps               \* per series: its rolloverModifierProps and rolloverModifierProps1

modifierVars == << isAttached, mousePosition, mousePoint, showRolloverLineProperty,
                   showTooltipProperty, includedSeriesMap, rolloverLineIsHidden, seriesProps >>

vars == << tooltipArray, allowTooltipOverlapping, spacing, seriesViewRect, pixelRatio,
           isVerticalChart, given, calls, pc, cluster, shiftMap, pointsArgs, updatedPoints,
           isAttached, mousePosition, mousePoint, showRolloverLineProperty,
           showTooltipProperty, includedSeriesMap, rolloverLineIsHidden, seriesProps >>

----------------------------------------------------------------------------
(* Numbers *)

Unit == 64

Px(n) == n * Unit

\* JavaScript "/" on the values of this model: defined where the quotient is exact
Div(a, b) == CASE a % b = 0 -> a \div b

----------------------------------------------------------------------------
(* tooltip.ts *)

ESize == [width |-> "width", height |-> "height"]

ECoord == [xCoord |-> "xCoord", yCoord |-> "yCoord"]

EShift == [xCoordShift |-> "xCoordShift", yCoordShift |-> "yCoordShift"]

\* getTooltipPositionProperties with the shift of the other axis for a vertical chart
getTooltipPositionPropertiesMixed(isVertical) ==
    IF isVertical
    THEN [ sizePropertyName  |-> ESize.width,
           coordPropertyName |-> ECoord.xCoord,
           shiftPropertyName |-> EShift.yCoordShift ]
    ELSE [ sizePropertyName  |-> ESize.height,
           coordPropertyName |-> ECoord.yCoord,
           shiftPropertyName |-> EShift.yCoordShift ]

getTooltipPositionProperties(isVertical) ==
    IF isVertical
    THEN [ sizePropertyName  |-> ESize.width,
           coordPropertyName |-> ECoord.xCoord,
           shiftPropertyName |-> EShift.xCoordShift ]
    ELSE [ sizePropertyName  |-> ESize.height,
           coordPropertyName |-> ECoord.yCoord,
           shiftPropertyName |-> EShift.yCoordShift ]

getStartPoint(coord, shift, ratio) == coord + shift * ratio

getEndPoint(coord, shift, ratio, size) == coord + shift * ratio + size

RECURSIVE SumSizes(_, _, _)
SumSizes(arr, sizePropertyName, k) ==
    IF k = 0 THEN 0
    ELSE SumSizes(arr, sizePropertyName, k - 1) + arr[k][sizePropertyName]

getTotalSize(arr, sizePropertyName) == SumSizes(arr, sizePropertyName, Len(arr))

getTotalSpacing(arr, space) == (Len(arr) - 1) * space

\* getUpdatedPoints with its two boundary checks in the other order: the start clamp
\* is applied last and overrides the end clamp
getUpdatedPointsStartLast(startPoint, endPoint, totalBoxModel, size) ==
    LET additionalWidth == totalBoxModel - (endPoint - startPoint)
        additionalWidthHalf == Div(additionalWidth, 2)
        availableWidthFromStart == startPoint
        availableWidthFromEnd == size - endPoint
        clampEnd == availableWidthFromEnd < additionalWidthHalf
        start1 == IF clampEnd THEN startPoint - (additionalWidth - availableWidthFromEnd)
                  ELSE startPoint - additionalWidthHalf
        end1 == IF clampEnd THEN size ELSE endPoint + additionalWidthHalf
        clampStart == availableWidthFromStart < additionalWidthHalf
    IN  [ start |-> IF clampStart THEN 0 ELSE start1,
          end   |-> IF clampStart THEN endPoint + (additionalWidth - availableWidthFromStart)
                    ELSE end1 ]

\* getUpdatedPoints that, where no boundary is near, adds the whole deficit at the end
getUpdatedPointsEndOnly(startPoint, endPoint, totalBoxModel, size) ==
    LET additionalWidth == totalBoxModel - (endPoint - startPoint)
        additionalWidthHalf == Div(additionalWidth, 2)
        availableWidthFromStart == startPoint
        availableWidthFromEnd == size - endPoint
        clampStart == availableWidthFromStart < additionalWidthHalf
        start1 == IF clampStart THEN 0 ELSE startPoint
        end1 == IF clampStart THEN endPoint + (additionalWidth - availableWidthFromStart)
                ELSE endPoint + additionalWidth
        clampEnd == availableWidthFromEnd < additionalWidthHalf
    IN  [ start |-> IF clampEnd THEN startPoint - (additionalWidth - availableWidthFromEnd)
                    ELSE start1,
          end   |-> IF clampEnd THEN size ELSE end1 ]

getUpdatedPoints(startPoint, endPoint, totalBoxModel, size) ==
    LET additionalWidth == totalBoxModel - (endPoint - startPoint)
        additionalWidthHalf == Div(additionalWidth, 2)
        availableWidthFromStart == startPoint
        availableWidthFromEnd == size - endPoint
        start0 == startPoint - additionalWidthHalf
        end0 == endPoint + additionalWidthHalf
        clampStart == availableWidthFromStart < additionalWidthHalf
        start1 == IF clampStart THEN 0 ELSE start0
        end1 == IF clampStart THEN endPoint + (additionalWidth - availableWidthFromStart)
                ELSE end0
        clampEnd == availableWidthFromEnd < additionalWidthHalf
    IN  [ start |-> IF clampEnd THEN startPoint - (additionalWidth - availableWidthFromEnd)
                    ELSE start1,
          end   |-> IF clampEnd THEN size ELSE end1 ]

\* Map.set: a later entry for the same key replaces the earlier one
MapSet(map, key, value) ==
    [ k \in DOMAIN map \cup {key} |-> IF k = key THEN value ELSE map[k] ]

\* the reduce of spreadTooltips, members k..Len(arr), accumulator tooltipTopCoord
RECURSIVE SpreadReduce(_, _, _, _, _, _, _)
SpreadReduce(arr, k, tooltipTopCoord, currentPadding, ratio, props, map) ==
    IF k > Len(arr) THEN map
    ELSE SpreadReduce(arr, k + 1,
                      tooltipTopCoord + arr[k][props.sizePropertyName] + currentPadding,
                      currentPadding, ratio, props,
                      MapSet(map, arr[k].index,
                             Div(tooltipTopCoord - arr[k][props.coordPropertyName], ratio)))

spreadTooltips(arr, ratio, props, space, viewRect) ==
    LET length == Len(arr)
        totalSize == getTotalSize(arr, props.sizePropertyName)
        totalSpacing == getTotalSpacing(arr, space)
        totalBoxModel == totalSize + totalSpacing
        firstTooltip == arr[1]
        lastTooltip == arr[length]
        startPoint == getStartPoint(firstTooltip[props.coordPropertyName],
                                    firstTooltip[props.shiftPropertyName], ratio)
        endPoint == getEndPoint(lastTooltip[props.coordPropertyName],
                                lastTooltip[props.shiftPropertyName], ratio,
                                lastTooltip[props.sizePropertyName])
        points == getUpdatedPoints(startPoint, endPoint, totalBoxModel,
                                   viewRect[props.sizePropertyName])
        currentPadding == Div(points.end - points.start - totalSize, length - 1)
    IN  SpreadReduce(arr, 1, points.start, currentPadding, ratio, props, << >>)

\* the arguments spreadTooltips hands to getUpdatedPoints
spreadPointsArgs(arr, ratio, props, space, viewRect) ==
    [ startPoint    |-> getStartPoint(arr[1][props.coordPropertyName],
                                      arr[1][props.shiftPropertyName], ratio),
      endPoint      |-> getEndPoint(arr[Len(arr)][props.coordPropertyName],
                                    arr[Len(arr)][props.shiftPropertyName], ratio,
                                    arr[Len(arr)][props.sizePropertyName]),
      totalBoxModel |-> getTotalSize(arr, props.sizePropertyName) + getTotalSpacing(arr, space),
      size          |-> viewRect[props.sizePropertyName] ]

\* checkHasOverlap with the shift of the next tooltip taken unscaled
checkHasOverlapUnscaled(arr, space, ratio, props) ==
    \E i \in 1 .. Len(arr) - 1 :
        LET currentTooltipEndPoint ==
                arr[i][props.coordPropertyName] + arr[i][props.sizePropertyName]
                    + arr[i][props.shiftPropertyName] * ratio
            nextTooltipStartPoint ==
                arr[i + 1][props.coordPropertyName] + arr[i + 1][props.shiftPropertyName]
        IN  nextTooltipStartPoint - currentTooltipEndPoint < space

checkHasOverlap(arr, space, ratio, props) ==
    \E i \in 1 .. Len(arr) - 1 :
        LET currentTooltipEndPoint ==
                arr[i][props.coordPropertyName] + arr[i][props.sizePropertyName]
                    + arr[i][props.shiftPropertyName] * ratio
            nextTooltipStartPoint ==
                arr[i + 1][props.coordPropertyName]
                    + arr[i + 1][props.shiftPropertyName] * ratio
        IN  nextTooltipStartPoint - currentTooltipEndPoint < space

----------------------------------------------------------------------------
(* RolloverModifier.ts: the layout functions *)

Range(seq) == { seq[k] : k \in DOMAIN seq }

\* the members of a cluster: the objects of arr at the cluster's positions
Members(arr, positions) == [ k \in DOMAIN positions |-> arr[positions[k]] ]

\* an unstable sort: position p goes before the positions with an equal key (not the code)
InsertByKeyBeforeTies(sorted, p, arr, key) ==
    LET before == { k \in DOMAIN sorted : arr[sorted[k]][key] < arr[p][key] }
        n == Cardinality(before)
    IN  SubSeq(sorted, 1, n) \o << p >> \o SubSeq(sorted, n + 1, Len(sorted))

\* Array.prototype.sort with the comparator a[key] - b[key] (a stable sort):
\* position p goes behind every position whose key is not greater
InsertByKey(sorted, p, arr, key) ==
    LET before == { k \in DOMAIN sorted : arr[sorted[k]][key] <= arr[p][key] }
        n == Cardinality(before)
    IN  SubSeq(sorted, 1, n) \o << p >> \o SubSeq(sorted, n + 1, Len(sorted))

RECURSIVE SortedPositions(_, _, _)
SortedPositions(arr, key, k) ==
    IF k = 0 THEN << >>
    ELSE InsertByKey(SortedPositions(arr, key, k - 1), k, arr, key)

\* the condition under which splitIntoClusters keeps a tooltip in the current cluster
JoinsCluster(last, tooltip, space, ratio, props) ==
    LET lastEnd == getEndPoint(last[props.coordPropertyName],
                               last[props.shiftPropertyName], ratio,
                               last[props.sizePropertyName])
        currentStart == getStartPoint(tooltip[props.coordPropertyName],
                                      tooltip[props.shiftPropertyName], ratio)
    IN  currentStart < lastEnd + Div(space, ratio)

\* the for loop of splitIntoClusters from the k-th sorted tooltip on;
\* clusters: the closed clusters, current: the cluster being built
RECURSIVE ClusterLoop(_, _, _, _, _, _, _, _)
ClusterLoop(arr, sorted, k, clusters, current, space, ratio, props) ==
    IF k > Len(sorted)
    THEN IF Len(current) > 0 THEN Append(clusters, current) ELSE clusters
    ELSE IF Len(current) = 0
         THEN ClusterLoop(arr, sorted, k + 1, clusters, << sorted[k] >>, space, ratio, props)
         ELSE IF JoinsCluster(arr[current[Len(current)]], arr[sorted[k]], space, ratio, props)
              THEN ClusterLoop(arr, sorted, k + 1, clusters, Append(current, sorted[k]),
                               space, ratio, props)
              ELSE ClusterLoop(arr, sorted, k + 1, Append(clusters, current),
                               << sorted[k] >>, space, ratio, props)

\* splitIntoClusters without its sort: the loop walks the array as it is given
splitIntoClustersUnsorted(arr, space, ratio, props) ==
    ClusterLoop(arr, [ k \in 1 .. Len(arr) |-> k ], 1, << >>, << >>, space, ratio, props)

\* the clusters, each a sequence of positions of arr; arr itself is left as it is
splitIntoClusters(arr, space, ratio, props) ==
    ClusterLoop(arr, SortedPositions(arr, props.coordPropertyName, Len(arr)), 1,
                << >>, << >>, space, ratio, props)

\* tooltip[positionProperties.shiftPropertyName] = value
SetShift(tooltip, props, value) == [ tooltip EXCEPT ![props.shiftPropertyName] = value ]

\* the centering for vertical charts with >= in place of >
CenterVerticalFromHalf(arr, ratio, props) ==
    [ k \in DOMAIN arr |->
        LET halfWidth == Div(Div(arr[k].width, 2), ratio)
        IN  IF arr[k].xCoord >= halfWidth
            THEN SetShift(arr[k], props, Div(-Div(arr[k].width, 2), ratio))
            ELSE arr[k] ]

\* "centering for vertical charts"
CenterVertical(arr, ratio, props) ==
    [ k \in DOMAIN arr |->
        LET halfWidth == Div(Div(arr[k].width, 2), ratio)
        IN  IF arr[k].xCoord > halfWidth
            THEN SetShift(arr[k], props, Div(-Div(arr[k].width, 2), ratio))
            ELSE arr[k] ]

\* the spread of one cluster with the shifts of spreadMap written to every tooltip of
\* the array whose index has an entry, instead of to the members of the cluster
SpreadClusterByIndex(arr, positions, ratio, props, space, viewRect) ==
    IF Len(positions) >= 2
    THEN LET spreadMap == spreadTooltips(Members(arr, positions), ratio, props, space, viewRect)
         IN  [ k \in DOMAIN arr |->
                 IF arr[k].index \in DOMAIN spreadMap
                 THEN SetShift(arr[k], props, spreadMap[arr[k].index])
                 ELSE arr[k] ]
    ELSE arr

\* one cluster of clusters.forEach: spread it if it has two members or more
SpreadCluster(arr, positions, ratio, props, space, viewRect) ==
    IF Len(positions) >= 2
    THEN LET spreadMap == spreadTooltips(Members(arr, positions), ratio, props, space, viewRect)
         IN  [ k \in DOMAIN arr |->
                 IF k \in Range(positions)
                 THEN SetShift(arr[k], props, spreadMap[arr[k].index])
                 ELSE arr[k] ]
    ELSE arr

RECURSIVE SpreadClusters(_, _, _, _, _, _, _)
SpreadClusters(arr, clusters, c, ratio, props, space, viewRect) ==
    IF c > Len(clusters) THEN arr
    ELSE SpreadClusters(SpreadCluster(arr, clusters[c], ratio, props, space, viewRect),
                        clusters, c + 1, ratio, props, space, viewRect)

\* calcTooltipPositions without the test of allowTooltipOverlapping
calcTooltipPositionsAlwaysSpread(arr, allowOverlapping, space, viewRect, ratio, isVertical) ==
    LET positionProperties == getTooltipPositionProperties(isVertical)
        centered == IF isVertical THEN CenterVertical(arr, ratio, positionProperties) ELSE arr
        hasOverlap == checkHasOverlap(centered, space, ratio, positionProperties)
        length == Len(centered)
    IN  IF length >= 2 /\ hasOverlap
        THEN SpreadClusters(centered,
                            splitIntoClusters(centered, space, ratio, positionProperties),
                            1, ratio, positionProperties, space, viewRect)
        ELSE centered

\* calcTooltipPositions with the centering for vertical charts done on a copy that is
\* used only when the tooltips are spread
calcTooltipPositionsCenterOnSpread(arr, allowOverlapping, space, viewRect, ratio, isVertical) ==
    LET positionProperties == getTooltipPositionProperties(isVertical)
        centered == IF isVertical THEN CenterVertical(arr, ratio, positionProperties) ELSE arr
        hasOverlap == checkHasOverlap(centered, space, ratio, positionProperties)
        length == Len(centered)
    IN  IF ~allowOverlapping /\ length >= 2 /\ hasOverlap
        THEN SpreadClusters(centered,
                            splitIntoClusters(centered, space, ratio, positionProperties),
                            1, ratio, positionProperties, space, viewRect)
        ELSE arr

\* calcTooltipPositions with the sort of splitIntoClusters done on tooltipArray itself
\* instead of a copy of it
calcTooltipPositionsSortInPlace(arr, allowOverlapping, space, viewRect, ratio, isVertical) ==
    LET positionProperties == getTooltipPositionProperties(isVertical)
        centered == IF isVertical THEN CenterVertical(arr, ratio, positionProperties) ELSE arr
        hasOverlap == checkHasOverlap(centered, space, ratio, positionProperties)
        length == Len(centered)
        sorted == Members(centered,
                          SortedPositions(centered, positionProperties.coordPropertyName,
                                          length))
    IN  IF ~allowOverlapping /\ length >= 2 /\ hasOverlap
        THEN SpreadClusters(sorted,
                            splitIntoClusters(sorted, space, ratio, positionProperties),
                            1, ratio, positionProperties, space, viewRect)
        ELSE centered

calcTooltipPositions(arr, allowOverlapping, space, viewRect, ratio, isVertical) ==
    LET positionProperties == getTooltipPositionProperties(isVertical)
        centered == IF isVertical THEN CenterVertical(arr, ratio, positionProperties) ELSE arr
        hasOverlap == checkHasOverlap(centered, space, ratio, positionProperties)
        length == Len(centered)
    IN  IF ~allowOverlapping /\ length >= 2 /\ hasOverlap
        THEN SpreadClusters(centered,
                            splitIntoClusters(centered, space, ratio, positionProperties),
                            1, ratio, positionProperties, space, viewRect)
        ELSE centered

\* the clusters calcTooltipPositions hands to spreadTooltips, in the order of the calls
spreadTooltipsCalls(arr, allowOverlapping, space, ratio, isVertical) ==
    LET positionProperties == getTooltipPositionProperties(isVertical)
        centered == IF isVertical THEN CenterVertical(arr, ratio, positionProperties) ELSE arr
        hasOverlap == checkHasOverlap(centered, space, ratio, positionProperties)
        clusters == splitIntoClusters(centered, space, ratio, positionProperties)
        called == SelectSeq(clusters, LAMBDA cl : Len(cl) >= 2)
    IN  IF ~allowOverlapping /\ Len(centered) >= 2 /\ hasOverlap
        THEN [ c \in DOMAIN called |-> Members(centered, called[c]) ]
        ELSE << >>

----------------------------------------------------------------------------
(* RolloverModifier.ts: the modifier.  Modelled with its defaults hitTestRadius = 0,   *)
(* no placementDivId and no tooltipLegendTemplate; the data values xValue / yValue of   *)
(* a tooltip are left out.                                                              *)

TOOLTIP_SPACING == 4

\* hitTestRenderableSeries returned undefined
NoHitTestInfo == [ found |-> FALSE ]

EMousePosition ==
    [ OutOfCanvas |-> "OutOfCanvas", AxisArea |-> "AxisArea", SeriesArea |-> "SeriesArea" ]

ESeriesType == [ BandSeries |-> "BandSeries", StackedColumnSeries |-> "StackedColumnSeries" ]

\* parentSurface.renderableSeries, each series with the (unscaled) size of its tooltip
\* annotation: rolloverModifierProps.tooltip.width / height
RenderableSeries ==
    << [ type |-> ESeriesType.BandSeries, tooltipWidth |-> Px(6), tooltipHeight |-> Px(4) ],
       [ type |-> ESeriesType.StackedColumnSeries, tooltipWidth |-> Px(6), tooltipHeight |-> Px(4) ] >>

Series == DOMAIN RenderableSeries

\* includedSeriesMap is a Map: a function on the series that were set
testIsIncludedSeries(map, series) == ~(series \in DOMAIN map /\ map[series] = FALSE)

\* the included series in the order of the surface (all are visible, with showRollover)
RECURSIVE IncludedUpTo(_, _)
IncludedUpTo(map, n) ==
    IF n = 0 THEN << >>
    ELSE IF testIsIncludedSeries(map, n) THEN Append(IncludedUpTo(map, n - 1), n)
         ELSE IncludedUpTo(map, n - 1)

getIncludedRenderableSeries(map) == IncludedUpTo(map, Len(RenderableSeries))

\* rolloverModifierProps (marker, tooltip) and rolloverModifierProps1 (marker1, tooltip1)
\* of a series whose annotations were just created, or deleted
NewProps(has) ==
    [ hasAnnotations |-> has,
      markerIsHidden |-> TRUE, tooltipIsHidden |-> TRUE,
      marker1IsHidden |-> TRUE, tooltip1IsHidden |-> TRUE ]

addSeriesAnnotationsToParentSurface(props, rs) ==
    [ props EXCEPT ![rs] = IF props[rs].hasAnnotations THEN props[rs] ELSE NewProps(TRUE) ]

removeSeriesAnnotationsFromParentSurface(props, rs) ==
    [ props EXCEPT ![rs] = NewProps(FALSE) ]

Hit(isHit, yCoord, y1Coord) ==
    [ found |-> TRUE, isHit |-> isHit, xCoord |-> Px(10), yCoord |-> yCoord,
      y1Coord |-> y1Coord ]

\* rs.hitTestProvider.hitTestXSlice at each mouse point of the series area, for the band
\* series and the stacked column series: the data of the chart.  A yCoord of Px(30) is
\* beyond the viewport.
HitTestData ==
    << << Hit(TRUE, Px(4), Px(8)),   Hit(TRUE, Px(8), 0) >>,
       << Hit(FALSE, Px(4), Px(4)),  Hit(FALSE, Px(8), 0) >>,
       << Hit(TRUE, Px(30), Px(4)),  NoHitTestInfo >>,
       << NoHitTestInfo,             Hit(TRUE, Px(30), 0) >>,
       << NoHitTestInfo,             Hit(TRUE, Px(8), 0) >>,
       << Hit(TRUE, Px(4), Px(30)),  Hit(TRUE, Px(8), 0) >> >>

hitTestRenderableSeries(rs, point) ==
    IF point = 0 THEN NoHitTestInfo ELSE HitTestData[point][rs]

\* calcTooltipProps without the tests of the distances to the edges (not the code)
calcTooltipPropsNoEdges(index, rs, viewRect, absoluteXCoord, absoluteYCoord, hitTestInfo, ratio, isY1, isVertical) ==
    LET seriesInfo == [ isHit |-> hitTestInfo.isHit, series |-> rs ]
        width == RenderableSeries[rs].tooltipWidth
        scaledWidth == width * ratio
        height == RenderableSeries[rs].tooltipHeight
        scaledHeight == height * ratio
        distTop == absoluteYCoord
        distBottom == viewRect.height - absoluteYCoord
        defaultVerticalShift == Px(5) * ratio
        xCoordShift == IF viewRect.width - absoluteXCoord < scaledWidth THEN -width ELSE Px(5)
        yCoordShift == IF isVertical THEN defaultVerticalShift ELSE Div(-height, 2)
    IN  [ index |-> index, isY1 |-> isY1, seriesInfo |-> seriesInfo,
          xCoord |-> absoluteXCoord, yCoord |-> absoluteYCoord,
          xCoordShift |-> xCoordShift, yCoordShift |-> yCoordShift,
          height |-> scaledHeight, width |-> scaledWidth ]

calcTooltipProps(index, rs, viewRect, absoluteXCoord, absoluteYCoord, hitTestInfo, ratio, isY1, isVertical) ==
    LET seriesInfo == [ isHit |-> hitTestInfo.isHit, series |-> rs ]
        width == RenderableSeries[rs].tooltipWidth
        scaledWidth == width * ratio
        height == RenderableSeries[rs].tooltipHeight
        scaledHeight == height * ratio
        distTop == absoluteYCoord
        distBottom == viewRect.height - absoluteYCoord
        defaultVerticalShift == Px(5) * ratio
        xCoordShift == IF viewRect.width - absoluteXCoord < scaledWidth THEN -width ELSE Px(5)
        yCoordShift ==
            IF isVertical
            THEN IF distBottom < scaledHeight + defaultVerticalShift
                 THEN Div(scaledHeight + defaultVerticalShift, ratio) * (-1)
                 ELSE defaultVerticalShift
            ELSE IF distTop < Div(scaledHeight, 2)
                 THEN Div(-distTop, ratio)
                 ELSE IF distBottom < Div(scaledHeight, 2)
                      THEN Div(-(scaledHeight - distBottom), ratio)
                      ELSE Div(-height, 2)
    IN  [ index |-> index, isY1 |-> isY1, seriesInfo |-> seriesInfo,
          xCoord |-> absoluteXCoord, yCoord |-> absoluteYCoord,
          xCoordShift |-> xCoordShift, yCoordShift |-> yCoordShift,
          height |-> scaledHeight, width |-> scaledWidth ]

\* what the body of rsList.forEach((rs, index) => ...) pushes for one series
TooltipsOfSeries(rs, index, point, viewRect, ratio, isVertical) ==
    LET hitTestInfo == hitTestRenderableSeries(rs, point)
        height == IF isVertical THEN viewRect.width ELSE viewRect.height
        type == RenderableSeries[rs].type
        isVisible == 0 <= hitTestInfo.yCoord /\ hitTestInfo.yCoord <= height
        isVisibleY1 == 0 <= hitTestInfo.y1Coord /\ hitTestInfo.y1Coord <= height
        primary ==
            IF (type # ESeriesType.StackedColumnSeries \/ hitTestInfo.isHit) /\ isVisible
            THEN << calcTooltipProps(index, rs, viewRect,
                        IF isVertical THEN hitTestInfo.yCoord ELSE hitTestInfo.xCoord,
                        IF isVertical THEN hitTestInfo.xCoord ELSE hitTestInfo.yCoord,
                        hitTestInfo, ratio, FALSE, isVertical) >>
            ELSE << >>
        y1 ==
            IF type = ESeriesType.BandSeries /\ isVisibleY1
            THEN << calcTooltipProps(index, rs, viewRect,
                        IF isVertical THEN hitTestInfo.y1Coord ELSE hitTestInfo.xCoord,
                        IF isVertical THEN hitTestInfo.xCoord ELSE hitTestInfo.y1Coord,
                        hitTestInfo, ratio, TRUE, isVertical) >>
            ELSE << >>
    IN  IF ~hitTestInfo.found THEN << >> ELSE primary \o y1

\* the tooltipArray that updateSeriesAnnotations builds from the first n series of rsList
RECURSIVE BuildTooltipArray(_, _, _, _, _, _)
BuildTooltipArray(rsList, n, point, viewRect, ratio, isVertical) ==
    IF n = 0 THEN << >>
    ELSE BuildTooltipArray(rsList, n - 1, point, viewRect, ratio, isVertical)
            \o TooltipsOfSeries(rsList[n], n - 1, point, viewRect, ratio, isVertical)

\* tooltipArray.sort by xCoord (vertical chart) or yCoord
OrderTooltipArray(arr, isVertical) ==
    Members(arr, SortedPositions(arr, IF isVertical THEN ECoord.xCoord ELSE ECoord.yCoord,
                                 Len(arr)))

updateRolloverModifierProps(props, rs, tooltipProps, showTooltip, showMarker) ==
    IF tooltipProps.isY1
    THEN [ props EXCEPT
             ![rs].marker1IsHidden = IF showMarker THEN FALSE ELSE @,
             ![rs].tooltip1IsHidden = IF showTooltip THEN FALSE ELSE @ ]
    ELSE [ props EXCEPT
             ![rs].markerIsHidden = IF showMarker THEN FALSE ELSE @,
             ![rs].tooltipIsHidden = IF showTooltip THEN FALSE ELSE @ ]

\* tooltipPositions.forEach(el => ...), elements k..Len(positions)
RECURSIVE ShowPositions(_, _, _, _, _)
ShowPositions(props, rsList, positions, k, showTooltip) ==
    IF k > Len(positions) THEN props
    ELSE LET el == positions[k]
             rs == rsList[el.index + 1]
         IN  ShowPositions(
                 updateRolloverModifierProps(props, rs, el,
                                             showTooltip /\ el.seriesInfo.isHit,
                                             el.seriesInfo.isHit),
                 rsList, positions, k + 1, showTooltip)

\* the first rsList.forEach of updateSeriesAnnotations: create if missing, then hide
\* props.marker and props.tooltip (for a band series the same two once more)
RECURSIVE HideAnnotations(_, _, _)
HideAnnotations(props, rsList, n) ==
    IF n = 0 THEN props
    ELSE LET before == HideAnnotations(props, rsList, n - 1)
             created == addSeriesAnnotationsToParentSurface(before, rsList[n])
         IN  [ created EXCEPT ![rsList[n]].markerIsHidden = TRUE,
                              ![rsList[n]].tooltipIsHidden = TRUE ]

\* updateLine() always showing the line in the series area (not the code)
updateLineIgnoresFlag(position, point, showLine, snapToDataPoint, isWithinDataBounds, included) ==
    position # EMousePosition.SeriesArea

\* the new rolloverLineAnnotation.isHidden; isWithinDataBounds is that field of the hit
\* test of the first included series (read only when snapToDataPoint)
updateLine(position, point, showLine, snapToDataPoint, isWithinDataBounds, included) ==
    LET rsList == getIncludedRenderableSeries(included)
    IN  IF position # EMousePosition.SeriesArea THEN TRUE
        ELSE IF ~showLine THEN TRUE
        ELSE IF snapToDataPoint
             THEN IF Len(rsList) > 0
                  THEN IF hitTestRenderableSeries(rsList[1], point).found
                            /\ isWithinDataBounds
                       THEN FALSE
                       ELSE TRUE
                  ELSE TRUE
             ELSE FALSE

\* updateSeriesAnnotations(), with the state it reads as arguments; the result holds the
\* fields it writes, the ordered tooltipArray handed to CalculateTooltipPositions (given)
\* and the tooltipPositions it returned (both empty when it returned before building
\* them)
updateSeriesAnnotations(position, point, showTooltip, included, props, allowOverlapping, viewRect, ratio, isVertical) ==
    LET rsList == getIncludedRenderableSeries(included)
        hidden == HideAnnotations(props, rsList, Len(rsList))
        built == BuildTooltipArray(rsList, Len(rsList), point, viewRect, ratio, isVertical)
        ordered == OrderTooltipArray(built, isVertical)
        positions == calcTooltipPositions(ordered, allowOverlapping,
                                          Px(TOOLTIP_SPACING) * ratio, viewRect, ratio,
                                          isVertical)
    IN  IF position # EMousePosition.SeriesArea
        THEN [ props |-> hidden, given |-> << >>, positions |-> << >> ]
        ELSE [ props |-> ShowPositions(hidden, rsList, positions, 1, showTooltip),
               given |-> ordered, positions |-> positions ]

----------------------------------------------------------------------------
(* The inputs *)

MaxTooltips == 3

MaxCalls == 2

MaxPoint == 8

PixelRatios == {1, 2}

Coords == { Px(0), Px(2), Px(14) }

Sizes == { Px(8), Px(12) }

Spacings == { Px(4) }

Extents == { Px(24), Px(64) }

\* where the tooltip lies about its coord before the layout: with its leading edge on
\* it (shift 0), or centered on it as calcTooltipProps does (shift -size/2, unscaled)
Anchors == { "edge", "center" }

AnchorShift(anchor, size, ratio) ==
    IF anchor = "center" THEN Div(-Div(size, 2), ratio) ELSE 0

\* a candidate with the given fields on the distribution axis of the orientation
Candidate(index, isY1, coord, size, shift, isVertical) ==
    IF isVertical
    THEN [ index |-> index, isY1 |-> isY1, seriesInfo |-> [ isHit |-> TRUE, series |-> index ],
           xCoord |-> coord, width |-> size, xCoordShift |-> shift,
           yCoord |-> Px(3), height |-> Px(6), yCoordShift |-> Px(5) ]
    ELSE [ index |-> index, isY1 |-> isY1, seriesInfo |-> [ isHit |-> TRUE, series |-> index ],
           yCoord |-> coord, height |-> size, yCoordShift |-> shift,
           xCoord |-> Px(3), width |-> Px(6), xCoordShift |-> Px(5) ]

\* the index of the k-th candidate: one per series, or with band the first two
\* candidates are the Y and Y1 tooltips of series 0
IndexOf(k, band) == IF band THEN (IF k <= 2 THEN 0 ELSE k - 2) ELSE k - 1

Rect(extent, isVertical) ==
    IF isVertical THEN [ width |-> extent, height |-> Px(100) ]
    ELSE [ width |-> Px(100), height |-> extent ]

NoPoints == [ startPoint |-> 0, endPoint |-> 0, totalBoxModel |-> 0, size |-> 0 ]

\* the modifier as constructed with its defaults, not attached to a surface
ModifierConstructed ==
    /\ isAttached = FALSE
    /\ mousePosition = EMousePosition.OutOfCanvas
    /\ mousePoint = 0
    /\ showRolloverLineProperty = TRUE
    /\ showTooltipProperty = TRUE
    /\ includedSeriesMap = << >>
    /\ rolloverLineIsHidden = FALSE
    /\ seriesProps = [ rs \in Series |-> NewProps(FALSE) ]

Untouched ==
    /\ ModifierConstructed
    /\ given = tooltipArray
    /\ calls = 0
    /\ pc = "init"
    /\ cluster = << >>
    /\ shiftMap = << >>
    /\ pointsArgs = NoPoints
    /\ updatedPoints = [ start |-> 0, end |-> 0 ]

\* candidate lists of up to MaxTooltips tooltips, in any array order
InitDrawn ==
    /\ allowTooltipOverlapping \in BOOLEAN
    /\ pixelRatio \in PixelRatios
    /\ isVerticalChart \in BOOLEAN
    /\ spacing \in Spacings
    /\ \E extent \in Extents : seriesViewRect = Rect(extent, isVerticalChart)
    /\ \E n \in 0 .. MaxTooltips, anchor \in Anchors, band \in BOOLEAN :
         /\ band => n >= 2
         /\ \E coords \in [ 1 .. n -> Coords ], sizes \in [ 1 .. n -> Sizes ] :
              tooltipArray =
                [ k \in 1 .. n |->
                    Candidate(IndexOf(k, band), band /\ k = 2, coords[k], sizes[k],
                              AnchorShift(anchor, sizes[k], pixelRatio), isVerticalChart) ]
    /\ Untouched

\* two candidates, horizontal chart, yCoord 100 and 105, height 20, spacing 4,
\* pixelRatio 1, viewport height 300
InitTwoCandidates ==
    /\ allowTooltipOverlapping = FALSE
    /\ pixelRatio = 1
    /\ isVerticalChart = FALSE
    /\ spacing = Px(4)
    /\ seriesViewRect = Rect(Px(300), FALSE)
    /\ tooltipArray = << Candidate(0, FALSE, Px(100), Px(20), 0, FALSE),
                         Candidate(1, FALSE, Px(105), Px(20), 0, FALSE) >>
    /\ Untouched

\* three candidates at coord 0, 1, 2, large relative to a viewport extent of 10
InitNarrowViewport ==
    /\ allowTooltipOverlapping = FALSE
    /\ pixelRatio = 1
    /\ isVerticalChart = FALSE
    /\ spacing = Px(4)
    /\ seriesViewRect = Rect(Px(10), FALSE)
    /\ tooltipArray = << Candidate(0, FALSE, Px(0), Px(8), 0, FALSE),
                         Candidate(1, FALSE, Px(1), Px(8), 0, FALSE),
                         Candidate(2, FALSE, Px(2), Px(8), 0, FALSE) >>
    /\ Untouched

InitLayout == InitDrawn \/ InitTwoCandidates \/ InitNarrowViewport

----------------------------------------------------------------------------
(* The layout functions as operations *)

CalcTooltipPositions ==
    /\ calls < MaxCalls
    /\ tooltipArray' = calcTooltipPositions(tooltipArray, allowTooltipOverlapping, spacing,
                                            seriesViewRect, pixelRatio, isVerticalChart)
    /\ calls' = calls + 1
    /\ pc' = "calcTooltipPositions"
    /\ UNCHANGED << allowTooltipOverlapping, spacing, seriesViewRect, pixelRatio,
                    isVerticalChart, given, cluster, shiftMap, pointsArgs, updatedPoints >>
    /\ UNCHANGED modifierVars

\* spreadTooltips writing each shift into the member as well as into the map
SpreadTooltipsInPlace ==
    /\ pc = "init"
    /\ LET props == getTooltipPositionProperties(isVerticalChart)
           clusters == splitIntoClusters(tooltipArray, spacing, pixelRatio, props)
       IN  \E c \in DOMAIN clusters :
             /\ Len(clusters[c]) >= 2
             /\ cluster' = clusters[c]
             /\ shiftMap' = spreadTooltips(Members(tooltipArray, clusters[c]), pixelRatio,
                                           props, spacing, seriesViewRect)
             /\ pointsArgs' = spreadPointsArgs(Members(tooltipArray, clusters[c]), pixelRatio,
                                               props, spacing, seriesViewRect)
             /\ updatedPoints' = getUpdatedPoints(pointsArgs'.startPoint, pointsArgs'.endPoint,
                                                  pointsArgs'.totalBoxModel, pointsArgs'.size)
             /\ tooltipArray' =
                  [ k \in DOMAIN tooltipArray |->
                      IF k \in Range(clusters[c])
                      THEN SetShift(tooltipArray[k], props, shiftMap'[tooltipArray[k].index])
                      ELSE tooltipArray[k] ]
    /\ pc' = "spreadTooltips"
    /\ UNCHANGED << allowTooltipOverlapping, spacing, seriesViewRect,
                    pixelRatio, isVerticalChart, given, calls >>
    /\ UNCHANGED modifierVars

\* spreadTooltips on one of the clusters of the array that has two members or more
SpreadTooltips ==
    /\ pc = "init"
    /\ LET props == getTooltipPositionProperties(isVerticalChart)
           clusters == splitIntoClusters(tooltipArray, spacing, pixelRatio, props)
       IN  \E c \in DOMAIN clusters :
             /\ Len(clusters[c]) >= 2
             /\ cluster' = clusters[c]
             /\ shiftMap' = spreadTooltips(Members(tooltipArray, clusters[c]), pixelRatio,
                                           props, spacing, seriesViewRect)
             /\ pointsArgs' = spreadPointsArgs(Members(tooltipArray, clusters[c]), pixelRatio,
                                               props, spacing, seriesViewRect)
             /\ updatedPoints' = getUpdatedPoints(pointsArgs'.startPoint, pointsArgs'.endPoint,
                                                  pointsArgs'.totalBoxModel, pointsArgs'.size)
    /\ pc' = "spreadTooltips"
    /\ UNCHANGED << tooltipArray, allowTooltipOverlapping, spacing, seriesViewRect,
                    pixelRatio, isVerticalChart, given, calls >>
    /\ UNCHANGED modifierVars

NextLayout == CalcTooltipPositions \/ SpreadTooltips

SpecLayout == InitLayout /\ [][NextLayout]_vars

----------------------------------------------------------------------------
(* getUpdatedPoints on its own *)

InitPoints ==
    /\ allowTooltipOverlapping = FALSE
    /\ pixelRatio = 1
    /\ isVerticalChart = FALSE
    /\ spacing = Px(4)
    /\ seriesViewRect = Rect(Px(64), FALSE)
    /\ tooltipArray = << >>
    /\ Untouched

\* a natural span [startPoint, endPoint] shorter than totalBoxModel, as every cluster
\* of splitIntoClusters has it, in a viewport of any size
GetUpdatedPoints ==
    /\ pc = "init"
    /\ \E s \in -2 .. MaxPoint, span \in 0 .. MaxPoint, deficit \in 1 .. MaxPoint,
          size \in 0 .. 2 * MaxPoint :
         /\ pointsArgs' = [ startPoint |-> Px(s), endPoint |-> Px(s + span),
                            totalBoxModel |-> Px(span + deficit), size |-> Px(size) ]
         /\ updatedPoints' = getUpdatedPoints(Px(s), Px(s + span), Px(span + deficit), Px(size))
    /\ pc' = "getUpdatedPoints"
    /\ UNCHANGED << tooltipArray, allowTooltipOverlapping, spacing, seriesViewRect,
                    pixelRatio, isVerticalChart, given, calls, cluster, shiftMap >>
    /\ UNCHANGED modifierVars

NextPoints == GetUpdatedPoints

SpecPoints == InitPoints /\ [][NextPoints]_vars

----------------------------------------------------------------------------
(* calcTooltipProps on its own *)

ViewportHeights == { Px(6), Px(8), Px(24) }

InitProps ==
    /\ allowTooltipOverlapping = FALSE
    /\ pixelRatio \in PixelRatios
    /\ isVerticalChart \in BOOLEAN
    /\ spacing = Px(TOOLTIP_SPACING) * pixelRatio
    /\ seriesViewRect \in { [ width |-> Px(100), height |-> h ] : h \in ViewportHeights }
    /\ tooltipArray = << >>
    /\ Untouched

\* calcTooltipProps for a hit of series rs at a yCoord in or beyond the viewport
CalcTooltipProps ==
    /\ pc = "init"
    /\ \E rs \in Series, y \in 0 .. 3 * MaxPoint, x \in { Px(10), Px(98) } :
         tooltipArray' = << calcTooltipProps(rs - 1, rs, seriesViewRect, x, Px(y),
                                             Hit(TRUE, Px(y), 0), pixelRatio, FALSE,
                                             isVerticalChart) >>
    /\ pc' = "calcTooltipProps"
    /\ UNCHANGED << allowTooltipOverlapping, spacing, seriesViewRect, pixelRatio,
                    isVerticalChart, given, calls, cluster, shiftMap, pointsArgs,
                    updatedPoints >>
    /\ UNCHANGED modifierVars

NextProps == CalcTooltipProps

SpecProps == InitProps /\ [][NextProps]_vars

----------------------------------------------------------------------------
(* The modifier on a surface *)

Init ==
    /\ ModifierConstructed
    /\ allowTooltipOverlapping \in BOOLEAN
    /\ pixelRatio \in PixelRatios
    /\ isVerticalChart \in BOOLEAN
    /\ spacing = Px(TOOLTIP_SPACING) * pixelRatio
    /\ seriesViewRect = Rect(Px(24), isVerticalChart)
    /\ tooltipArray = << >>
    /\ given = << >>
    /\ calls = 0
    /\ pc = "init"
    /\ cluster = << >>
    /\ shiftMap = << >>
    /\ pointsArgs = NoPoints
    /\ updatedPoints = [ start |-> 0, end |-> 0 ]

layoutArgs == << allowTooltipOverlapping, spacing, seriesViewRect, pixelRatio, isVerticalChart,
                 calls, pc, cluster, shiftMap, pointsArgs, updatedPoints >>

\* this.update() with the mouse at position, over point: updateLine(), then
\* updateSeriesAnnotations().  snapToDataPoint is a public field that the host may assign
\* between events, and isWithinDataBounds a result of the hit-test provider: both are
\* drawn at each update
Update(position, point) ==
    LET u == updateSeriesAnnotations(position, point, showTooltipProperty,
                    includedSeriesMap, seriesProps,
                    allowTooltipOverlapping, seriesViewRect, pixelRatio, isVerticalChart)
    IN  /\ seriesProps' = u.props
        /\ given' = u.given
        /\ tooltipArray' = u.positions
        /\ \E snapToDataPoint \in BOOLEAN, isWithinDataBounds \in BOOLEAN :
              rolloverLineIsHidden' =
                  updateLine(position, point, showRolloverLineProperty, snapToDataPoint,
                             isWithinDataBounds, includedSeriesMap)

onAttach ==
    /\ ~isAttached
    /\ isAttached' = TRUE
    /\ seriesProps' =
         [ rs \in Series |->
             IF testIsIncludedSeries(includedSeriesMap, rs) THEN NewProps(TRUE)
             ELSE seriesProps[rs] ]
    /\ UNCHANGED << mousePosition, mousePoint, showRolloverLineProperty, showTooltipProperty,
                    includedSeriesMap, rolloverLineIsHidden, tooltipArray, given >>
    /\ UNCHANGED layoutArgs

\* the pointer moves: out of the canvas (no mousePoint), onto an axis, or to a point of
\* the series area; the action is allowed (getIsActionAllowed)
modifierMouseMove ==
    /\ isAttached
    /\ \E position \in { EMousePosition.OutOfCanvas, EMousePosition.AxisArea,
                         EMousePosition.SeriesArea } :
         \E point \in 0 .. Len(HitTestData) :
            /\ position = EMousePosition.OutOfCanvas => point = 0
            /\ position = EMousePosition.AxisArea => point = 1
            /\ position = EMousePosition.SeriesArea => point > 0
            /\ mousePosition' = position
            /\ mousePoint' = point
            /\ Update(position, point)
    /\ UNCHANGED << isAttached, showRolloverLineProperty, showTooltipProperty,
                    includedSeriesMap >>
    /\ UNCHANGED layoutArgs

modifierMouseLeave ==
    /\ isAttached
    /\ mousePosition' = EMousePosition.OutOfCanvas
    /\ mousePoint' = 0
    /\ Update(EMousePosition.OutOfCanvas, 0)
    /\ UNCHANGED << isAttached, showRolloverLineProperty, showTooltipProperty,
                    includedSeriesMap >>
    /\ UNCHANGED layoutArgs

onParentSurfaceRendered ==
    /\ isAttached
    /\ Update(mousePosition, mousePoint)
    /\ UNCHANGED << isAttached, mousePosition, mousePoint, showRolloverLineProperty,
                    showTooltipProperty, includedSeriesMap >>
    /\ UNCHANGED layoutArgs

setShowRolloverLine ==
    /\ \E value \in BOOLEAN : showRolloverLineProperty' = value
    /\ UNCHANGED << isAttached, mousePosition, mousePoint, showTooltipProperty,
                    includedSeriesMap, rolloverLineIsHidden, seriesProps, tooltipArray, given >>
    /\ UNCHANGED layoutArgs

setShowTooltip ==
    /\ \E value \in BOOLEAN : showTooltipProperty' = value
    /\ UNCHANGED << isAttached, mousePosition, mousePoint, showRolloverLineProperty,
                    includedSeriesMap, rolloverLineIsHidden, seriesProps, tooltipArray, given >>
    /\ UNCHANGED layoutArgs

\* includeSeries() without the valueChanged test (not the code)
includeSeriesAlwaysSets(series, isIncluded) ==
    /\ includedSeriesMap' = MapSet(includedSeriesMap, series, isIncluded)
    /\ seriesProps' =
         IF ~isAttached THEN seriesProps
         ELSE IF isIncluded
              THEN addSeriesAnnotationsToParentSurface(seriesProps, series)
              ELSE removeSeriesAnnotationsFromParentSurface(seriesProps, series)
    /\ UNCHANGED << isAttached, mousePosition, mousePoint, showRolloverLineProperty,
                    showTooltipProperty, rolloverLineIsHidden, tooltipArray, given >>
    /\ UNCHANGED layoutArgs

\* includeSeries(series, isIncluded)
includeSeriesCall(series, isIncluded) ==
    /\ LET valueChanged ==
                 \/ (series \notin DOMAIN includedSeriesMap /\ ~isIncluded)
                 \/ (series \in DOMAIN includedSeriesMap /\ includedSeriesMap[series]
                        /\ ~isIncluded)
                 \/ (series \in DOMAIN includedSeriesMap /\ ~includedSeriesMap[series]
                        /\ isIncluded)
       IN  IF valueChanged
           THEN /\ includedSeriesMap' = MapSet(includedSeriesMap, series, isIncluded)
                /\ seriesProps' =
                     IF ~isAttached THEN seriesProps
                     ELSE IF isIncluded
                          THEN addSeriesAnnotationsToParentSurface(seriesProps, series)
                          ELSE removeSeriesAnnotationsFromParentSurface(seriesProps, series)
           ELSE UNCHANGED << includedSeriesMap, seriesProps >>
    /\ UNCHANGED << isAttached, mousePosition, mousePoint, showRolloverLineProperty,
                    showTooltipProperty, rolloverLineIsHidden, tooltipArray, given >>
    /\ UNCHANGED layoutArgs

includeSeries == \E series \in Series, isIncluded \in BOOLEAN : includeSeriesCall(series, isIncluded)

Next ==
    \/ onAttach
    \/ modifierMouseMove
    \/ modifierMouseLeave
    \/ onParentSurfaceRendered
    \/ setShowRolloverLine
    \/ setShowTooltip
    \/ includeSeries

Spec == Init /\ [][Next]_vars

----------------------------------------------------------------------------
(* Vocabulary of the properties *)

Props == getTooltipPositionProperties(isVerticalChart)

CoordOf(t) == t[Props.coordPropertyName]

SizeOf(t) == t[Props.sizePropertyName]

ShiftOf(t) == t[Props.shiftPropertyName]

SortedByCoord(arr) == \A i, j \in DOMAIN arr : i < j => CoordOf(arr[i]) <= CoordOf(arr[j])

UniqueIndex(arr) == \A i, j \in DOMAIN arr : arr[i].index = arr[j].index => i = j

\* the members of the spread cluster, each with the shift the returned map holds for it
SpreadMembers ==
    [ k \in DOMAIN cluster |->
        SetShift(tooltipArray[cluster[k]], Props, shiftMap[tooltipArray[cluster[k]].index]) ]

\* the gap between members i and i + 1 of arr
Gap(arr, i) ==
    (CoordOf(arr[i + 1]) + ShiftOf(arr[i + 1]) * pixelRatio)
        - (CoordOf(arr[i]) + SizeOf(arr[i]) + ShiftOf(arr[i]) * pixelRatio)

TwoCandidates ==
    /\ pixelRatio = 1 /\ ~isVerticalChart /\ spacing = Px(4)
    /\ seriesViewRect.height = Px(300)
    /\ Len(given) = 2
    /\ given[1].yCoord = Px(100) /\ given[2].yCoord = Px(105)
    /\ given[1].height = Px(20) /\ given[2].height = Px(20)

----------------------------------------------------------------------------
(* The claims *)

\* C1: after spreadTooltips on a cluster of two members or more (sorted by coord) in a
\* viewport at least totalBoxModel long, with the returned shifts applied to the members,
\* every adjacent pair is at least spacing apart; in the two-candidate scenario the
\* candidates overlap before and the resulting gap is exactly 4.
C1_NoOverlapAfterSpread ==
    (pc = "spreadTooltips" /\ pointsArgs.size >= pointsArgs.totalBoxModel) =>
        /\ \A i \in 1 .. Len(cluster) - 1 : Gap(SpreadMembers, i) >= spacing
        /\ TwoCandidates =>
             /\ checkHasOverlap(given, spacing, pixelRatio, Props)
             /\ Gap(SpreadMembers, 1) = Px(4)

\* C1 on the clusters whose members have pairwise distinct index values
C1_UniqueIndex ==
    UniqueIndex(tooltipArray) => C1_NoOverlapAfterSpread

\* C2 (on candidate lists with pairwise distinct index values): after
\* calcTooltipPositions with allowTooltipOverlapping = false on a list sorted by coord,
\* in a viewport that holds all tooltips with spacing, checkHasOverlap is false on the
\* returned list.
C2_NoCollisionAfterCalc ==
    ( /\ calls = 1
      /\ ~allowTooltipOverlapping
      /\ UniqueIndex(given)
      /\ SortedByCoord(given)
      /\ seriesViewRect[Props.sizePropertyName]
           >= getTotalSize(given, Props.sizePropertyName) + getTotalSpacing(given, spacing) )
    => ~checkHasOverlap(tooltipArray, spacing, pixelRatio, Props)

\* C3 (on candidate lists with pairwise distinct index values): a second
\* calcTooltipPositions on the list the first call returned leaves every shift as it is.
C3_Idempotent ==
    [][ (calls = 1 /\ calls' = 2 /\ UniqueIndex(given)) =>
            \A k \in DOMAIN tooltipArray :
                ShiftOf(tooltipArray'[k]) = ShiftOf(tooltipArray[k]) ]_vars

\* the shift of each index in arr
ShiftByIndex(arr) ==
    [ i \in { arr[k].index : k \in DOMAIN arr } |->
        ShiftOf(arr[CHOOSE k \in DOMAIN arr : arr[k].index = i]) ]

\* C4: calcTooltipPositions gives each index the same shift for every permutation of a
\* candidate list with unique index values.
C4_OrderIndependent ==
    (calls = 1 /\ UniqueIndex(given)) =>
        \A f \in Permutations(DOMAIN given) :
            ShiftByIndex(calcTooltipPositions([ k \in DOMAIN given |-> given[f[k]] ],
                                              allowTooltipOverlapping, spacing,
                                              seriesViewRect, pixelRatio, isVerticalChart))
                = ShiftByIndex(tooltipArray)

PointsApplied == pc \in { "getUpdatedPoints", "spreadTooltips" }

AdditionalWidthHalf ==
    Div(pointsArgs.totalBoxModel - (pointsArgs.endPoint - pointsArgs.startPoint), 2)

\* C5: whenever the centered span would start below 0, getUpdatedPoints returns start 0.
C5_StartClamped ==
    (PointsApplied /\ pointsArgs.startPoint - AdditionalWidthHalf < 0)
        => updatedPoints.start = 0

\* C6: whenever the centered span would end beyond the viewport, getUpdatedPoints
\* returns the viewport size as end.
C6_EndClamped ==
    (PointsApplied /\ pointsArgs.endPoint + AdditionalWidthHalf > pointsArgs.size)
        => updatedPoints.end = pointsArgs.size

\* C6 happens: the end clamp of getUpdatedPoints was taken, alone or with the start clamp
C6_Witness ==
    /\ pc = "getUpdatedPoints"
    /\ pointsArgs.endPoint + AdditionalWidthHalf > pointsArgs.size
    /\ pointsArgs.startPoint - AdditionalWidthHalf < 0
    /\ updatedPoints.end = pointsArgs.size

\* C7: when the span is too large on both sides (both available widths less than half the
\* deficit), getUpdatedPoints returns [0, viewport extent].
C7_BothClamped ==
    ( /\ PointsApplied
      /\ pointsArgs.startPoint < AdditionalWidthHalf
      /\ pointsArgs.size - pointsArgs.endPoint < AdditionalWidthHalf )
    => (updatedPoints.start = 0 /\ updatedPoints.end = pointsArgs.size)

\* the shift of a candidate after the pre-centering of vertical charts
ShiftAfterCentering(t) ==
    IF isVerticalChart /\ t.xCoord > Div(t.width, 2 * pixelRatio)
    THEN -Div(t.width, 2 * pixelRatio)
    ELSE ShiftOf(t)

\* C8: with allowTooltipOverlapping = true every candidate returns with the shift it had
\* after the vertical pre-centering (on a horizontal chart: its input shift).
C8_AllowOverlapBypass ==
    (calls >= 1 /\ allowTooltipOverlapping) =>
        /\ Len(tooltipArray) = Len(given)
        /\ \A k \in DOMAIN given : ShiftOf(tooltipArray[k]) = ShiftAfterCentering(given[k])

\* C8 happens: calcTooltipPositions returned, with allowTooltipOverlapping = true, a list
\* of three candidates that overlap
C8_Witness ==
    /\ calls >= 1
    /\ allowTooltipOverlapping
    /\ Len(given) = 3
    /\ checkHasOverlap(tooltipArray, spacing, pixelRatio, Props)
    /\ \A k \in DOMAIN given : ShiftOf(tooltipArray[k]) = ShiftAfterCentering(given[k])

\* C9: the candidates of every list updateSeriesAnnotations builds and hands to
\* calcTooltipPositions have pairwise distinct index values.
C9_UniqueIndexBuilt ==
    UniqueIndex(given)

\* C10: calcTooltipPositions returns the candidates in the array order and number it was
\* given, and changes no field but the shift of the distribution axis.
C10_OnlyShiftWritten ==
    calls >= 1 =>
        /\ Len(tooltipArray) = Len(given)
        /\ \A k \in DOMAIN given :
             tooltipArray[k] = SetShift(given[k], Props, ShiftOf(tooltipArray[k]))

\* C10 happens: calcTooltipPositions returned a list it was given out of coord order,
\* with a new shift on some candidate
C10_Witness ==
    /\ calls >= 1
    /\ ~SortedByCoord(given)
    /\ \E k \in DOMAIN given : ShiftOf(tooltipArray[k]) # ShiftOf(given[k])
    /\ \A k \in DOMAIN given : tooltipArray[k].index = given[k].index

\* the list as it is after the centering for vertical charts
Centered(arr) == [ k \in DOMAIN arr |-> SetShift(arr[k], Props, ShiftAfterCentering(arr[k])) ]

\* C11: when the list has fewer than two candidates, or checkHasOverlap is false on it
\* (after the centering for vertical charts), calcTooltipPositions returns every
\* candidate with the shift it had after that centering: nothing is spread.
C11_NoSpreadWithoutOverlap ==
    ( /\ calls = 1
      /\ \/ Len(given) < 2
         \/ ~checkHasOverlap(Centered(given), spacing, pixelRatio, Props) )
    => /\ Len(tooltipArray) = Len(given)
       /\ \A k \in DOMAIN given : ShiftOf(tooltipArray[k]) = ShiftAfterCentering(given[k])

\* C11 happens: one call made, overlapping not allowed, on two candidates that do not
\* overlap
C11_Witness ==
    /\ calls = 1
    /\ ~allowTooltipOverlapping
    /\ Len(given) = 2
    /\ ~checkHasOverlap(Centered(given), spacing, pixelRatio, Props)
    /\ \A k \in DOMAIN given : ShiftOf(tooltipArray[k]) = ShiftAfterCentering(given[k])

\* the three property names of one screen axis
XAxisNames == [ sizePropertyName |-> "width", coordPropertyName |-> "xCoord",
                shiftPropertyName |-> "xCoordShift" ]

YAxisNames == [ sizePropertyName |-> "height", coordPropertyName |-> "yCoord",
                shiftPropertyName |-> "yCoordShift" ]

\* C12: getTooltipPositionProperties(true) is (width, xCoord, xCoordShift),
\* getTooltipPositionProperties(false) is (height, yCoord, yCoordShift), and the
\* properties the layout of the chart works with are the three of one screen axis.
C12_PositionProperties ==
    /\ getTooltipPositionProperties(TRUE) = XAxisNames
    /\ getTooltipPositionProperties(FALSE) = YAxisNames
    /\ Props \in { XAxisNames, YAxisNames }
    /\ Props = XAxisNames <=> isVerticalChart

\* C12 happens: on a vertical chart spreadTooltips read the viewport width and returned
\* the shifts of a cluster
C12_Witness ==
    /\ pc = "spreadTooltips"
    /\ isVerticalChart
    /\ pointsArgs.size = seriesViewRect.width
    /\ pointsArgs.size # seriesViewRect.height
    /\ Len(cluster) >= 2

\* C13: checkHasOverlap is true exactly when some pair adjacent in the array order is
\* less than spacing apart, and false on every list of length 0 or 1.
C13_OverlapIffAdjacentGap ==
    /\ checkHasOverlap(tooltipArray, spacing, pixelRatio, Props)
          <=> \E i \in 1 .. Len(tooltipArray) - 1 : Gap(tooltipArray, i) < spacing
    /\ Len(tooltipArray) <= 1 => ~checkHasOverlap(tooltipArray, spacing, pixelRatio, Props)

\* C13 happens: calcTooltipPositions tested, and with overlapping allowed left as they
\* were, three candidates of which only the last two are less than spacing apart
C13_Witness ==
    /\ calls = 1
    /\ allowTooltipOverlapping
    /\ ~isVerticalChart
    /\ Len(tooltipArray) = 3
    /\ Gap(tooltipArray, 1) >= spacing
    /\ Gap(tooltipArray, 2) < spacing
    /\ checkHasOverlap(tooltipArray, spacing, pixelRatio, Props)

\* C14: where calcTooltipPositions spreads nothing (overlapping allowed, or fewer than two
\* candidates) its result shows the pre-centering alone: on a vertical chart every
\* candidate with xCoord > width / (2 * pixelRatio) has the shift
\* -width / (2 * pixelRatio) and every other candidate the shift it was given; on a
\* horizontal chart every candidate has the shifts it was given.
C14_VerticalPreCentering ==
    (calls = 1 /\ (allowTooltipOverlapping \/ Len(given) < 2)) =>
        \A k \in DOMAIN given :
            LET t == given[k]
                r == tooltipArray[k]
            IN  /\ r.yCoordShift = t.yCoordShift
                /\ IF isVerticalChart /\ t.xCoord * 2 * pixelRatio > t.width
                   THEN r.xCoordShift * 2 * pixelRatio = -t.width
                   ELSE r.xCoordShift = t.xCoordShift

\* C14 happens: a vertical chart, a candidate that was centered and one, with xCoord
\* equal to width / (2 * pixelRatio), that was left as given
C14_Witness ==
    /\ calls = 1
    /\ allowTooltipOverlapping
    /\ isVerticalChart
    /\ \E k \in DOMAIN given :
         /\ given[k].xCoord * 2 * pixelRatio > given[k].width
         /\ tooltipArray[k].xCoordShift # given[k].xCoordShift
    /\ \E k \in DOMAIN given :
         /\ given[k].xCoord * 2 * pixelRatio = given[k].width
         /\ tooltipArray[k].xCoordShift = given[k].xCoordShift

\* the clusters handed to spreadTooltips by the first call of calcTooltipPositions
CallsOnGiven ==
    spreadTooltipsCalls(given, allowTooltipOverlapping, spacing, pixelRatio, isVerticalChart)

\* C15: every cluster calcTooltipPositions hands to spreadTooltips has two members or more
\* (count - 1 is not 0) and is sorted ascending by coord, and calcTooltipPositions
\* returns a list of the candidates it was given.
C15_SpreadPreconditions ==
    calls = 1 =>
        /\ \A c \in DOMAIN CallsOnGiven :
             /\ Len(CallsOnGiven[c]) - 1 > 0
             /\ SortedByCoord(CallsOnGiven[c])
        /\ Len(tooltipArray) = Len(given)
        /\ \A k \in DOMAIN given : tooltipArray[k].index = given[k].index

\* C15 happens: a call on a list that is not in coord order handed a cluster of three to
\* spreadTooltips
C15_Witness ==
    /\ calls = 1
    /\ ~SortedByCoord(given)
    /\ \E c \in DOMAIN CallsOnGiven : Len(CallsOnGiven[c]) = 3

\* positions p and q of the array lie in one cluster
SameCluster(clusters, p, q) ==
    \E c \in DOMAIN clusters : p \in Range(clusters[c]) /\ q \in Range(clusters[c])

\* splitIntoClusters ran in the first call of calcTooltipPositions
SplitOnGiven ==
    /\ calls = 1
    /\ ~allowTooltipOverlapping
    /\ Len(given) >= 2
    /\ checkHasOverlap(Centered(given), spacing, pixelRatio, Props)

\* C16: walking the candidates in ascending coord order, splitIntoClusters keeps a
\* candidate in the cluster of the one before it exactly when its leading edge is less
\* than that one's trailing edge (the running trailing edge of the cluster) plus spacing,
\* the device-pixel value checkHasOverlap compares against.
C16_JoinIffWithinSpacing ==
    SplitOnGiven =>
        LET arr == Centered(given)
            sorted == SortedPositions(arr, Props.coordPropertyName, Len(arr))
            clusters == splitIntoClusters(arr, spacing, pixelRatio, Props)
            inOrder == Members(arr, sorted)
        IN  \A k \in 1 .. Len(sorted) - 1 :
                SameCluster(clusters, sorted[k], sorted[k + 1]) <=> Gap(inOrder, k) < spacing

\* C16 where pixelRatio is 1
C16_AtPixelRatioOne ==
    pixelRatio = 1 => C16_JoinIffWithinSpacing

\* the position spreadTooltips gives member k of the cluster: its coord and the shift the
\* returned map holds for its index, in device pixels
SpreadPosition(k) == CoordOf(SpreadMembers[k]) + ShiftOf(SpreadMembers[k]) * pixelRatio

\* C17: spreadTooltips lays the members out in their order from finalStart: the first
\* member's shift is (finalStart - coord) / pixelRatio, every next member lies at the
\* position of the one before plus that one's size plus padding, with
\* padding = (finalEnd - finalStart - totalSize) / (count - 1), and the trailing edge of
\* the last member is finalEnd.
C17_LayoutFromStart ==
    pc = "spreadTooltips" =>
        LET count == Len(cluster)
            totalSize == getTotalSize(SpreadMembers, Props.sizePropertyName)
        IN  /\ ShiftOf(SpreadMembers[1]) * pixelRatio
                  = updatedPoints.start - CoordOf(SpreadMembers[1])
            /\ \A k \in 1 .. count - 1 :
                  (SpreadPosition(k + 1) - SpreadPosition(k) - SizeOf(SpreadMembers[k]))
                        * (count - 1)
                      = updatedPoints.end - updatedPoints.start - totalSize
            /\ SpreadPosition(count) + SizeOf(SpreadMembers[count]) = updatedPoints.end

\* C17 on the clusters whose members have pairwise distinct index values
C17_UniqueIndex ==
    UniqueIndex(tooltipArray) => C17_LayoutFromStart

\* C18: when the natural span is shorter than totalBoxModel and both available widths
\* are at least half the deficit, getUpdatedPoints moves start and end outward by half
\* the deficit each: the midpoint of the span stays where it was.
C18_SymmetricExpansion ==
    ( /\ PointsApplied
      /\ pointsArgs.endPoint - pointsArgs.startPoint < pointsArgs.totalBoxModel
      /\ pointsArgs.startPoint >= AdditionalWidthHalf
      /\ pointsArgs.size - pointsArgs.endPoint >= AdditionalWidthHalf )
    => /\ pointsArgs.startPoint - updatedPoints.start = AdditionalWidthHalf
       /\ updatedPoints.end - pointsArgs.endPoint = AdditionalWidthHalf
       /\ updatedPoints.start + updatedPoints.end
             = pointsArgs.startPoint + pointsArgs.endPoint

\* C18 happens: getUpdatedPoints widened a span that has room on both sides
C18_Witness ==
    /\ pc = "getUpdatedPoints"
    /\ pointsArgs.startPoint > AdditionalWidthHalf
    /\ pointsArgs.size - pointsArgs.endPoint > AdditionalWidthHalf
    /\ updatedPoints.start < pointsArgs.startPoint
    /\ updatedPoints.end > pointsArgs.endPoint

\* C19: spreadTooltips leaves the cluster and every field of its members as they were;
\* what it returns is a map that holds an entry for the index of every member, and for
\* nothing else.
C19_SpreadReturnsMapOnly ==
    pc = "spreadTooltips" =>
        /\ tooltipArray = given
        /\ DOMAIN shiftMap = { tooltipArray[cluster[k]].index : k \in DOMAIN cluster }

\* C19 happens: spreadTooltips returned, for a cluster of three, a shift that differs from
\* the shift of the member it is for
C19_Witness ==
    /\ pc = "spreadTooltips"
    /\ Len(cluster) = 3
    /\ \E k \in DOMAIN cluster :
         shiftMap[tooltipArray[cluster[k]].index] # ShiftOf(tooltipArray[cluster[k]])

\* the clusters splitIntoClusters made in the first call of calcTooltipPositions
ClustersOfGiven == splitIntoClusters(Centered(given), spacing, pixelRatio, Props)

\* C20: every candidate that splitIntoClusters put in a cluster of its own has, when
\* calcTooltipPositions returns, the shift it had after the centering for vertical
\* charts, whatever was spread in the same call.
C20_SingletonKeepsShift ==
    SplitOnGiven =>
        \A c \in DOMAIN ClustersOfGiven :
            Len(ClustersOfGiven[c]) = 1 =>
                ShiftOf(tooltipArray[ClustersOfGiven[c][1]])
                    = ShiftAfterCentering(given[ClustersOfGiven[c][1]])

\* C20 happens: one call left a candidate in a cluster of its own and moved a member of
\* another cluster of the same list
C20_Witness ==
    /\ SplitOnGiven
    /\ \E c \in DOMAIN ClustersOfGiven : Len(ClustersOfGiven[c]) = 1
    /\ \E c \in DOMAIN ClustersOfGiven :
         /\ Len(ClustersOfGiven[c]) = 2
         /\ \E k \in Range(ClustersOfGiven[c]) :
              ShiftOf(tooltipArray[k]) # ShiftAfterCentering(given[k])

----------------------------------------------------------------------------
(* The rollover line and the annotations of the series *)

\* a step that ran update(): a mouse move, a mouse leave or a render
RanUpdate == modifierMouseMove \/ modifierMouseLeave \/ onParentSurfaceRendered

\* C21: after a step that ends with update(), the rollover line is visible only if the
\* mouse position is SeriesArea and showRolloverLine is true; after modifierMouseLeave
\* the mouse position is OutOfCanvas and the line is hidden
C21_LineVisibleOnlyInSeriesArea ==
    [][ /\ RanUpdate =>
            (~rolloverLineIsHidden' =>
                /\ mousePosition' = EMousePosition.SeriesArea
                /\ showRolloverLineProperty')
        /\ modifierMouseLeave =>
            /\ mousePosition' = EMousePosition.OutOfCanvas
            /\ rolloverLineIsHidden' ]_vars

\* the line is shown over the series area
C21_Witness ==
    /\ isAttached
    /\ mousePosition = EMousePosition.SeriesArea
    /\ showRolloverLineProperty
    /\ ~rolloverLineIsHidden

\* a candidate of series rs (the Y1 one when isY1) with seriesInfo.isHit is in arr
HitCandidate(arr, rs, isY1) ==
    \E k \in DOMAIN arr :
        /\ arr[k].seriesInfo.series = rs
        /\ arr[k].isY1 = isY1
        /\ arr[k].seriesInfo.isHit

\* C22: after each run of updateSeriesAnnotations a tooltip annotation is visible only
\* if showTooltip is true and this run produced a candidate with seriesInfo.isHit for it,
\* and a marker annotation is visible only if this run produced such a candidate; for
\* the primary and for the Y1 annotations
C22_VisibleOnlyIfHit ==
    [][ RanUpdate =>
          \A rs \in Series :
            /\ ~seriesProps'[rs].tooltipIsHidden =>
                  showTooltipProperty' /\ HitCandidate(tooltipArray', rs, FALSE)
            /\ ~seriesProps'[rs].markerIsHidden => HitCandidate(tooltipArray', rs, FALSE)
            /\ ~seriesProps'[rs].tooltip1IsHidden =>
                  showTooltipProperty' /\ HitCandidate(tooltipArray', rs, TRUE)
            /\ ~seriesProps'[rs].marker1IsHidden => HitCandidate(tooltipArray', rs, TRUE)
      ]_vars

\* the part of C22 about the primary annotations
C22_PrimaryVisibleOnlyIfHit ==
    [][ RanUpdate =>
          \A rs \in Series :
            /\ ~seriesProps'[rs].tooltipIsHidden =>
                  showTooltipProperty' /\ HitCandidate(tooltipArray', rs, FALSE)
            /\ ~seriesProps'[rs].markerIsHidden => HitCandidate(tooltipArray', rs, FALSE)
      ]_vars

\* C23: every series is included at first; a call includeSeries(series, flag) makes
\* testIsIncludedSeries(series) equal to flag and leaves the answer for the other series
\* alone, no other step changes the map, and a call whose flag is the current inclusion
\* state changes neither includedSeriesMap nor the annotations on the surface
C23_IncludedIsLastFlag ==
    /\ \A series \in Series : testIsIncludedSeries(includedSeriesMap, series)
    /\ [][ /\ \A series \in Series, flag \in BOOLEAN :
                includeSeriesCall(series, flag) =>
                    /\ testIsIncludedSeries(includedSeriesMap', series) = flag
                    /\ \A other \in Series \ {series} :
                          testIsIncludedSeries(includedSeriesMap', other)
                              = testIsIncludedSeries(includedSeriesMap, other)
                    /\ flag = testIsIncludedSeries(includedSeriesMap, series) =>
                          /\ includedSeriesMap' = includedSeriesMap
                          /\ seriesProps' = seriesProps
           /\ ~includeSeries => includedSeriesMap' = includedSeriesMap ]_vars

\* a series was excluded and included again on the attached modifier, the other is
\* excluded
C23_Witness ==
    /\ isAttached
    /\ \E series \in DOMAIN includedSeriesMap : includedSeriesMap[series]
    /\ \E series \in Series : ~testIsIncludedSeries(includedSeriesMap, series)

----------------------------------------------------------------------------
(* The span of getUpdatedPoints and the clusters *)

\* C24: the span that getUpdatedPoints returns is exactly totalBoxModel long, on every
\* branch; hence the members that spreadTooltips laid out, with the returned shifts
\* applied, are exactly spacing apart, whatever the viewport extent
C24_SpanIsTotalBoxModel ==
    /\ PointsApplied =>
          updatedPoints.end - updatedPoints.start = pointsArgs.totalBoxModel
    /\ pc = "spreadTooltips" =>
          \A i \in 1 .. Len(cluster) - 1 : Gap(SpreadMembers, i) = spacing

\* C24 on the clusters whose members have pairwise distinct index values
C24_UniqueIndex ==
    UniqueIndex(tooltipArray) => C24_SpanIsTotalBoxModel

\* the first half of C24 alone
C24_SpanLength ==
    PointsApplied => updatedPoints.end - updatedPoints.start = pointsArgs.totalBoxModel

\* the natural span of the cluster lies inside a viewport that is at least totalBoxModel
\* long, and is not longer than totalBoxModel
SpanInsideViewport ==
    /\ pointsArgs.size >= pointsArgs.totalBoxModel
    /\ 0 <= pointsArgs.startPoint
    /\ pointsArgs.endPoint <= pointsArgs.size
    /\ pointsArgs.endPoint - pointsArgs.startPoint <= pointsArgs.totalBoxModel

\* C25: when the viewport is at least totalBoxModel long and the natural span of the
\* cluster lies inside it and is not longer than totalBoxModel, the span returned by
\* getUpdatedPoints lies inside [0, viewport extent], so every member that spreadTooltips
\* laid out, with the returned shift applied, is inside the viewport
C25_SpanInsideViewport ==
    /\ (PointsApplied /\ SpanInsideViewport) =>
          /\ 0 <= updatedPoints.start
          /\ updatedPoints.end <= pointsArgs.size
    /\ (pc = "spreadTooltips" /\ SpanInsideViewport) =>
          \A k \in DOMAIN cluster :
              /\ 0 <= SpreadPosition(k)
              /\ SpreadPosition(k) + SizeOf(SpreadMembers[k]) <= pointsArgs.size

\* C25 on the clusters whose members have pairwise distinct index values
C25_UniqueIndex ==
    UniqueIndex(tooltipArray) => C25_SpanInsideViewport

\* C26: on a list sorted ascending by coord, every adjacent pair that checkHasOverlap
\* flags (gap < spacing) is placed by splitIntoClusters in one cluster, so when
\* calcTooltipPositions finds overlap with allowTooltipOverlapping = false, some cluster
\* has two members or more and is handed to spreadTooltips
C26_FlaggedPairsShareCluster ==
    (SplitOnGiven /\ SortedByCoord(given)) =>
        /\ \A k \in 1 .. Len(given) - 1 :
              Gap(Centered(given), k) < spacing => SameCluster(ClustersOfGiven, k, k + 1)
        /\ \E c \in DOMAIN ClustersOfGiven : Len(ClustersOfGiven[c]) >= 2
        /\ Len(CallsOnGiven) >= 1

\* C26 where pixelRatio is 1
C26_AtPixelRatioOne ==
    pixelRatio = 1 => C26_FlaggedPairsShareCluster

\* the clusters one after the other
RECURSIVE Concatenation(_, _)
Concatenation(clusters, n) ==
    IF n = 0 THEN << >> ELSE Concatenation(clusters, n - 1) \o clusters[n]

\* C27: splitIntoClusters returns a partition of its input: no cluster is empty, every
\* candidate (position of the input) is in exactly one cluster, the clusters one after
\* the other are the input in ascending coord order with ties in their original order,
\* and the list calcTooltipPositions returns has the candidates in the order given
C27_ClustersPartitionInput ==
    SplitOnGiven =>
        LET all == Concatenation(ClustersOfGiven, Len(ClustersOfGiven))
        IN  /\ \A c \in DOMAIN ClustersOfGiven : Len(ClustersOfGiven[c]) > 0
            /\ Len(all) = Len(given)
            /\ \A p \in DOMAIN given : \E k \in DOMAIN all : all[k] = p
            /\ \A i, j \in DOMAIN all :
                  i < j =>
                    \/ CoordOf(given[all[i]]) < CoordOf(given[all[j]])
                    \/ CoordOf(given[all[i]]) = CoordOf(given[all[j]]) /\ all[i] < all[j]
            /\ Len(tooltipArray) = Len(given)
            /\ \A k \in DOMAIN given :
                  /\ tooltipArray[k].index = given[k].index
                  /\ CoordOf(tooltipArray[k]) = CoordOf(given[k])
                  /\ SizeOf(tooltipArray[k]) = SizeOf(given[k])

\* C27 happens: a list that is not in coord order, with two candidates on one coord, was
\* split into two clusters
C27_Witness ==
    /\ SplitOnGiven
    /\ ~SortedByCoord(given)
    /\ \E i, j \in DOMAIN given : i < j /\ CoordOf(given[i]) = CoordOf(given[j])
    /\ Len(ClustersOfGiven) = 2

----------------------------------------------------------------------------
(* The initial shift of calcTooltipProps *)

\* C28: on a horizontal chart, for a hit point with 0 <= yCoord <= viewport height and a
\* scaled tooltip height that is not more than the viewport height, the yCoordShift of
\* calcTooltipProps places the tooltip inside the viewport, centered on the hit point
\* unless the point is within half the scaled height of the top or the bottom edge
\* (in exact arithmetic: every length is a whole number of 1 / Unit pixel)
C28_InitialShiftInsideViewport ==
    ( /\ pc = "calcTooltipProps"
      /\ ~isVerticalChart
      /\ 0 <= tooltipArray[1].yCoord
      /\ tooltipArray[1].yCoord <= seriesViewRect.height
      /\ tooltipArray[1].height <= seriesViewRect.height )
    => LET t == tooltipArray[1]
           top == t.yCoord + t.yCoordShift * pixelRatio
       IN  /\ 0 <= top
           /\ top + t.height <= seriesViewRect.height
           /\ ( /\ 2 * t.yCoord >= t.height
                /\ 2 * (seriesViewRect.height - t.yCoord) >= t.height )
              => 2 * top + t.height = 2 * t.yCoord

\* C28 happens: a tooltip near the bottom edge was moved up to end on the edge
C28_Witness ==
    /\ pc = "calcTooltipProps"
    /\ ~isVerticalChart
    /\ pixelRatio = 2
    /\ tooltipArray[1].height <= seriesViewRect.height
    /\ tooltipArray[1].yCoord < seriesViewRect.height
    /\ 2 * (seriesViewRect.height - tooltipArray[1].yCoord) < tooltipArray[1].height
    /\ tooltipArray[1].yCoord + tooltipArray[1].yCoordShift * pixelRatio
          + tooltipArray[1].height = seriesViewRect.height

----------------------------------------------------------------------------
(* The annotations when the mouse is not over the series area *)

\* C29: after a step that ran update() with the mouse position not SeriesArea, every
\* marker and tooltip annotation of every included series is hidden, the Y1 marker and
\* tooltip of a band series among them
C29_HiddenOutsideSeriesArea ==
    [][ (RanUpdate /\ mousePosition' # EMousePosition.SeriesArea) =>
          \A rs \in Series :
            testIsIncludedSeries(includedSeriesMap', rs) =>
                /\ seriesProps'[rs].markerIsHidden
                /\ seriesProps'[rs].tooltipIsHidden
                /\ seriesProps'[rs].marker1IsHidden
                /\ seriesProps'[rs].tooltip1IsHidden ]_vars

\* the part of C29 about the primary annotations
C29_PrimaryHiddenOutsideSeriesArea ==
    [][ (RanUpdate /\ mousePosition' # EMousePosition.SeriesArea) =>
          \A rs \in Series :
            testIsIncludedSeries(includedSeriesMap', rs) =>
                /\ seriesProps'[rs].markerIsHidden
                /\ seriesProps'[rs].tooltipIsHidden ]_vars

====
